---- MODULE Spec2Model ----
(***************************************************************************)
(* gridstatus/eia.py: EIA.get_dataset, the paged fetch through a           *)
(* ThreadPoolExecutor, and the dataset handlers (_handle_time,             *)
(* _handle_rto_interchange, _handle_region_data, DATASET_HANDLERS).        *)
(*                                                                         *)
(* Representation.  A JSON object / Python dict is a sequence of           *)
(* <<key, value>> pairs (insertion order is kept, as in Python).  A        *)
(* DataFrame is [columns |-> sequence of names, rows |-> sequence of       *)
(* functions from column name to value].  A period label "YYYY-MM-DDTHH"   *)
(* is <<day, hour>>; a timestamp is a number of hours.  A balancing-       *)
(* authority code is a tuple of letter codes compared as Python compares   *)
(* str (lexicographically).  Python's None / JSON null is "null".          *)
(***************************************************************************)
EXTENDS Integers, Sequences, FiniteSets, TLC

\* ------------------------------------------------------------ bounds
\* largest number of pages the server's total asks for
MaxPages == 3
\* largest n_workers a caller passes
MaxWorkers == 2

\* ------------------------------------------------------------ constants
page_size == 5000

INTERCHANGE == "electricity/rto/interchange-data"
REGION == "electricity/rto/region-data"
FUELTYPE == "electricity/rto/fuel-type-data"

\* dataset paths a caller passes: the two registered ones and one that is not
Datasets == {INTERCHANGE, REGION, FUELTYPE}

None == "null"

\* ------------------------------------------------------------ dicts / JSON
Range(s) == {s[i] : i \in 1..Len(s)}

Keys(d) == {d[i][1] : i \in 1..Len(d)}

Get(d, k) == LET i == CHOOSE j \in 1..Len(d) : d[j][1] = k IN d[i][2]

\* d[k] = v on a Python dict: an existing key keeps its position
SetItem(d, k, v) ==
    IF k \in Keys(d)
        THEN [i \in 1..Len(d) |-> IF d[i][1] = k THEN <<k, v>> ELSE d[i]]
        ELSE Append(d, <<k, v>>)

\* json.dumps: the text is the members in order, each tagged "json"
json_dumps(d) == [i \in 1..Len(d) |-> <<"json", d[i][1], d[i][2]>>]

\* json.loads: the members of the text, as a dict
json_loads(s) == [i \in 1..Len(s) |-> <<s[i][2], s[i][3]>>]

\* ------------------------------------------------------------ DataFrames
\* the elements of acc (which has none twice) and then of more, each at
\* the place where it comes first
OrderedUnion(acc, more) ==
    LET s == acc \o more
        first == {i \in 1..Len(s) : \A j \in 1..(i - 1) : s[j] # s[i]}
    IN [k \in 1..Cardinality(first) |->
            s[CHOOSE i \in first : Cardinality({j \in first : j < i}) = k - 1]]

RECURSIVE Flatten(_)
Flatten(ss) == IF ss = << >> THEN << >> ELSE Head(ss) \o Flatten(Tail(ss))

DictKeys(d) == [i \in 1..Len(d) |-> d[i][1]]

\* pd.DataFrame(list of dicts): columns are the keys in order of first
\* appearance; a key a record lacks is NaN in that row
DataFrame(recs) ==
    LET cols == OrderedUnion(<< >>, Flatten([i \in 1..Len(recs) |-> DictKeys(recs[i])]))
    IN [columns |-> cols,
        rows |-> [i \in 1..Len(recs) |->
                    [c \in Range(cols) |->
                        IF c \in Keys(recs[i]) THEN Get(recs[i], c) ELSE None]]]

\* pd.concat(frames, ignore_index=True): the rows of the frames, in the
\* order of the list; columns are the ordered union
concat(frames) ==
    LET cols == OrderedUnion(<< >>, Flatten([i \in 1..Len(frames) |-> frames[i].columns]))
        pad(r) == [c \in Range(cols) |-> IF c \in DOMAIN r THEN r[c] ELSE None]
        rws == Flatten([i \in 1..Len(frames) |-> frames[i].rows])
    IN [columns |-> cols, rows |-> [i \in 1..Len(rws) |-> pad(rws[i])]]

\* ------------------------------------------------------------ handlers
\* a name that is bound to no DataFrame (yet)
NoFrame == [unbound |-> TRUE]

\* what a handler does: it returns a DataFrame or raises
Ok(df) == [ok |-> TRUE, df |-> df, error |-> None]
Raise(e) == [ok |-> FALSE, df |-> NoFrame, error |-> e]

\* Python's str comparison a < b on codes
RECURSIVE str_lt(_, _)
str_lt(a, b) ==
    IF b = << >> THEN FALSE
    ELSE IF a = << >> THEN TRUE
    ELSE IF Head(a) # Head(b) THEN Head(a) < Head(b)
    ELSE str_lt(Tail(a), Tail(b))

\* pd.to_datetime(period, utc=True): hours since the epoch
to_datetime(period) == period[1] * 24 + period[2]

\* pd.Timedelta(frequency), in hours
Timedelta(frequency) == CASE frequency = "1h" -> 1

Without(seq, x) == SelectSeq(seq, LAMBDA c : c # x)

\* (a bug) the period label is taken as the start of the interval
_handle_time_period_is_start(df, frequency) ==
    IF "period" \notin Range(df.columns) THEN Raise("KeyError")
    ELSE LET cols == <<"Interval Start", "Interval End">> \o Without(df.columns, "period")
             conv(r) == [c \in Range(cols) |->
                            IF c = "Interval Start" THEN to_datetime(r["period"])
                            ELSE IF c = "Interval End"
                                THEN to_datetime(r["period"]) + Timedelta(frequency)
                            ELSE r[c]]
         IN Ok([columns |-> cols, rows |-> [i \in 1..Len(df.rows) |-> conv(df.rows[i])]])

_handle_time(df, frequency) ==
    IF "period" \notin Range(df.columns) THEN Raise("KeyError")
    ELSE LET cols == <<"Interval Start", "Interval End">> \o Without(df.columns, "period")
             conv(r) == [c \in Range(cols) |->
                            IF c = "Interval End" THEN to_datetime(r["period"])
                            ELSE IF c = "Interval Start"
                                THEN to_datetime(r["period"]) - Timedelta(frequency)
                            ELSE r[c]]
         IN Ok([columns |-> cols, rows |-> [i \in 1..Len(df.rows) |-> conv(df.rows[i])]])

\* df.rename(mapping, axis=1): a mapping key that is no column is ignored
rename(df, mapping) ==
    LET new(c) == IF c \in Keys(mapping) THEN Get(mapping, c) ELSE c
        cols == [i \in 1..Len(df.columns) |-> new(df.columns[i])]
        old(n) == CHOOSE c \in Range(df.columns) : new(c) = n
    IN [columns |-> cols,
        rows |-> [i \in 1..Len(df.rows) |-> [n \in Range(cols) |-> df.rows[i][old(n)]]]]

\* df[[names]]
select(df, names) ==
    [columns |-> names,
     rows |-> [i \in 1..Len(df.rows) |-> [n \in Range(names) |-> df.rows[i][n]]]]

\* row a sorts strictly before row b under sort_values(by): the keys are
\* compared in turn, timestamps as numbers and strings as Python does
RECURSIVE Before(_, _, _)
Before(by, a, b) ==
    IF by = << >> THEN FALSE
    ELSE LET k == Head(by)
             lt == IF k \in {"Interval Start", "Interval End"}
                   THEN a[k] < b[k] ELSE str_lt(a[k], b[k])
         IN \/ lt
            \/ a[k] = b[k] /\ Before(Tail(by), a, b)

\* insert r behind every row that does not sort after it
RECURSIVE InsertSorted(_, _, _)
InsertSorted(sorted, r, by) ==
    IF sorted = << >> THEN <<r>>
    ELSE IF Before(by, r, Head(sorted)) THEN <<r>> \o sorted
    ELSE <<Head(sorted)>> \o InsertSorted(Tail(sorted), r, by)

RECURSIVE StableSort(_, _)
StableSort(rows, by) ==
    IF rows = << >> THEN << >>
    ELSE InsertSorted(StableSort(SubSeq(rows, 1, Len(rows) - 1), by),
                      rows[Len(rows)], by)

\* df.sort_values(by): pandas sorts several keys with a stable lexsort
sort_values(df, by) ==
    [columns |-> df.columns, rows |-> StableSort(df.rows, by)]

InterchangeRenames ==
    << <<"value", "MW">>, <<"fromba", "From BA">>, <<"toba", "To BA">>,
       <<"fromba-name", "From BA Name">>, <<"toba-name", "To BA Name">> >>

InterchangeColumns ==
    <<"Interval Start", "Interval End", "From BA", "From BA Name",
      "To BA", "To BA Name", "MW">>

\* (a bug) columns that are missing are passed over: the selection keeps
\* the columns that exist and the sort uses the keys that exist
_handle_rto_interchange_lenient(df) ==
    LET t == _handle_time(df, "1h") IN
    IF ~t.ok THEN t
    ELSE LET r == rename(t.df, InterchangeRenames)
             present(names) == SelectSeq(names, LAMBDA c : c \in Range(r.columns))
         IN Ok(sort_values(select(r, present(InterchangeColumns)),
                           present(<<"Interval Start", "From BA">>)))

\* (a bug) the second sort key is left out
_handle_rto_interchange_one_key(df) ==
    LET t == _handle_time(df, "1h") IN
    IF ~t.ok THEN t
    ELSE LET r == rename(t.df, InterchangeRenames) IN
         IF ~(Range(InterchangeColumns) \subseteq Range(r.columns)) THEN Raise("KeyError")
         ELSE Ok(sort_values(select(r, InterchangeColumns), <<"Interval Start">>))

_handle_rto_interchange(df) ==
    LET t == _handle_time(df, "1h") IN
    IF ~t.ok THEN t
    ELSE LET r == rename(t.df, InterchangeRenames) IN
         IF ~(Range(InterchangeColumns) \subseteq Range(r.columns)) THEN Raise("KeyError")
         ELSE Ok(sort_values(select(r, InterchangeColumns), <<"Interval Start", "From BA">>))

\* ---- region data
RegionRenames ==
    << <<"value", "MW">>, <<"respondent", "Respondent">>,
       <<"respondent-name", "Respondent Name">>, <<"type", "Type">> >>

TypeLabels ==
    << <<"D", "Load">>, <<"TI", "Total Interchange">>,
       <<"NG", "Net Generation">>, <<"DF", "Load Forecast">> >>

\* (a bug) Series.replace(dict): a value that is no key of the dict stays
map_keeping_others(mapping, v) == IF v \in Keys(mapping) THEN Get(mapping, v) ELSE v

\* Series.map(dict): a value that is no key of the dict becomes NaN
map(mapping, v) == IF v \in Keys(mapping) THEN Get(mapping, v) ELSE None

\* a nullable integer (Int64): << >> is <NA>, <<v>> holds v
NA == << >>
Int64(v) == <<v>>

\* df[col] = f(df[col]) with f the type mapping, resp. astype("Int64")
MapTypeColumn(df) ==
    [columns |-> df.columns,
     rows |-> [i \in 1..Len(df.rows) |->
                [df.rows[i] EXCEPT !["Type"] = map(TypeLabels, @)]]]

CastMW(df) ==
    [columns |-> df.columns,
     rows |-> [i \in 1..Len(df.rows) |-> [df.rows[i] EXCEPT !["MW"] = Int64(@)]]]

PivotIndex == <<"Interval Start", "Interval End", "Respondent", "Respondent Name">>

\* the columns a pivot on Type produces come out in sorted order
LabelOrder == <<"Load", "Load Forecast", "Net Generation", "Total Interchange">>

\* the loop "for col in [...]" after the pivot
FixColumns == <<"Load", "Net Generation", "Load Forecast", "Total Interchange">>

RECURSIVE Sum(_)
Sum(vals) == IF vals = << >> THEN 0 ELSE Head(vals)[1] + Sum(Tail(vals))

\* aggfunc="mean" over the values that are not <NA>; a mean that is no
\* integer is kept as <<sum, count>>
Mean(vals) ==
    LET present == SelectSeq(vals, LAMBDA v : v # NA)
        n == Len(present)
    IN IF n = 0 THEN NA
       ELSE IF Sum(present) % n = 0 THEN <<Sum(present) \div n>>
       ELSE <<Sum(present), n>>

RECURSIVE Distinct(_)
Distinct(seq) ==
    IF seq = << >> THEN << >>
    ELSE LET d == Distinct(SubSeq(seq, 1, Len(seq) - 1))
         IN IF seq[Len(seq)] \in Range(d) THEN d ELSE Append(d, seq[Len(seq)])

\* df.pivot_table(index=PivotIndex, columns="Type", values="MW").reset_index():
\* rows whose Type is NaN are dropped, one row per key in sorted key order,
\* one column per label that occurs, the mean of the key's values in each
pivot_table(df) ==
    LET valid == SelectSeq(df.rows, LAMBDA r : r["Type"] # None)
        keyOf(r) == [c \in Range(PivotIndex) |-> r[c]]
        keys == StableSort(Distinct([i \in 1..Len(valid) |-> keyOf(valid[i])]), PivotIndex)
        labels == SelectSeq(LabelOrder,
                            LAMBDA l : \E i \in 1..Len(valid) : valid[i]["Type"] = l)
        cell(k, l) ==
            Mean([i \in 1..Len(SelectSeq(valid, LAMBDA r : keyOf(r) = k /\ r["Type"] = l))
                    |-> SelectSeq(valid, LAMBDA r : keyOf(r) = k /\ r["Type"] = l)[i]["MW"]])
        cols == PivotIndex \o labels
    IN [columns |-> cols,
        rows |-> [i \in 1..Len(keys) |->
                    [c \in Range(cols) |->
                        IF c \in Range(PivotIndex) THEN keys[i][c] ELSE cell(keys[i], c)]]]

\* df[col] = df[col].astype("Int64") for each col of FixColumns in turn:
\* the first column that is missing raises KeyError, the first that holds
\* a non-integer mean raises TypeError
RECURSIVE FixAfterPivot(_, _)
FixAfterPivot(df, todo) ==
    IF todo = << >> THEN Ok(df)
    ELSE IF Head(todo) \notin Range(df.columns) THEN Raise("KeyError")
    ELSE IF \E i \in 1..Len(df.rows) : Len(df.rows[i][Head(todo)]) = 2
        THEN Raise("TypeError")
    ELSE FixAfterPivot(df, Tail(todo))

_handle_region_data(df) ==
    LET t == _handle_time(df, "1h") IN
    IF ~t.ok THEN t
    ELSE LET r == rename(t.df, RegionRenames) IN
         IF "Type" \notin Range(r.columns) \/ "MW" \notin Range(r.columns)
            \/ ~(Range(PivotIndex) \subseteq Range(r.columns))
         THEN Raise("KeyError")
         ELSE FixAfterPivot(pivot_table(CastMW(MapTypeColumn(r))), FixColumns)

\* ---- the registry
DATASET_HANDLERS == {INTERCHANGE, REGION}

\* DATASET_HANDLERS[dataset](df)
CallHandler(dataset, df) ==
    IF dataset = INTERCHANGE THEN _handle_rto_interchange(df)
    ELSE _handle_region_data(df)


\* (a bug) no membership test before the lookup
ApplyHandlerUnconditional(dataset, df) == CallHandler(dataset, df)

\* "if dataset in DATASET_HANDLERS: df = DATASET_HANDLERS[dataset](df)"
ApplyHandler(dataset, df) ==
    IF dataset \in DATASET_HANDLERS THEN CallHandler(dataset, df) ELSE Ok(df)

\* ------------------------------------------------------------ the server
\* letters of balancing-authority codes and names
A == <<1>>
AB == <<1, 2>>
B == <<2>>

InterchangeRecord(period, fromba, toba, value) ==
    << <<"period", period>>, <<"fromba", fromba>>, <<"fromba-name", fromba \o <<9>> >>,
       <<"toba", toba>>, <<"toba-name", toba \o <<9>> >>, <<"value", value>> >>

RegionRecord(period, respondent, type, value) ==
    << <<"period", period>>, <<"respondent", respondent>>,
       <<"respondent-name", respondent \o <<9>> >>, <<"type", type>>, <<"value", value>> >>

FuelRecord(period, respondent, fueltype, value) ==
    << <<"period", period>>, <<"respondent", respondent>>,
       <<"fueltype", fueltype>>, <<"value", value>> >>

\* records a dataset holds, in chunks (a page of 5000 records stands cut
\* down to its first records)
Chunks(ds) ==
    IF ds = INTERCHANGE THEN
        << << InterchangeRecord(<<1, 2>>, B, A, 5), InterchangeRecord(<<1, 2>>, AB, B, 7) >>,
           << InterchangeRecord(<<1, 1>>, B, A, 3) >>,
           << InterchangeRecord(<<1, 2>>, A, B, 4), InterchangeRecord(<<1, 1>>, B, AB, 6) >> >>
    ELSE IF ds = REGION THEN
        << << RegionRecord(<<1, 2>>, B, "D", 4), RegionRecord(<<1, 2>>, B, "NG", 6),
              RegionRecord(<<1, 2>>, B, "DF", 5), RegionRecord(<<1, 2>>, B, "TI", 2) >>,
           << RegionRecord(<<1, 1>>, A, "D", 8) >>,
           << RegionRecord(<<1, 1>>, A, "NG", 3), RegionRecord(<<1, 2>>, A, "TI", 1) >> >>
    ELSE
        << << FuelRecord(<<1, 2>>, B, "SUN", 5), FuelRecord(<<1, 1>>, A, "WND", 7) >>,
           << FuelRecord(<<1, 1>>, B, "SUN", 3) >>,
           << FuelRecord(<<1, 2>>, A, "WND", 2) >> >>

\* the pages of a server whose records begin at chunk v + 1
Stream(ds, v, n) ==
    [p \in 0..(n - 1) |-> Chunks(ds)[((p + v) % Len(Chunks(ds))) + 1]]

\* the total the later pages of server v report: the first page's, or,
\* of a server that has grown by a page since, a larger one
LaterTotal(v, total) == IF v = 2 THEN total + page_size ELSE total

\* the totals a server reports: around every page boundary
Totals ==
    {0, 1, MaxPages * page_size}
        \cup {k * page_size : k \in 1..(MaxPages - 1)}
        \cup {k * page_size + 1 : k \in 1..(MaxPages - 1)}

\* the number of pages a server with that many records holds
ServerPages(total) == (total + page_size - 1) \div page_size

VARIABLES
    api_key_arg, environ,                      \* EIA(api_key), os.environ's EIA_API_KEY
    api_key,                                   \* self.api_key
    dataset, start, end, n_workers, verbose,   \* the arguments of the call
    srv_total, srv_data,                       \* the server: total, records of each page
    srv_later,                                 \* the total its later pages report
    pc,                                        \* where the calling thread is
    hdr,                                       \* the headers dicts, by object identity
    total_records, total_pages, raw_df,
    futures,                                   \* the futures list, in submission order
    page_dfs,
    completed,                                 \* futures in the order they finished
    yielded, progress,                         \* as_completed / the progress bar
    requests,                                  \* every request the session sent
    result, error                              \* what the call returned / raised

vars == <<api_key_arg, environ, api_key, dataset, start, end, n_workers, verbose,
          srv_total, srv_data, srv_later, pc, hdr, total_records, total_pages, raw_df, futures, page_dfs, completed,
          yielded, progress, requests, result, error>>

\* what no step of get_dataset assigns: the client, the arguments, the server
args == <<api_key_arg, environ, api_key, dataset, start, end, n_workers, verbose,
          srv_total, srv_data, srv_later>>

\* an explicit key, and the key of the environment
API_KEY == "key"
ENV_KEY == "envkey"

\* t.strftime("%Y-%m-%dT%H") of a UTC timestamp
strftime(t) == <<t \div 24, t % 24>>

\* the params and headers dicts get_dataset builds first; the optional
\* argument end is << >> for None and <<t>> for a timestamp
BuildParams(s, e) ==
    << <<"start", strftime(s)>>,
       <<"end", IF e = << >> THEN None ELSE strftime(e[1])>>,
       <<"frequency", "hourly">>, <<"data", <<"value">> >>, <<"facets", << >> >>,
       <<"offset", 0>>, <<"length", 5000>> >>

BuildHeaders(s, e) ==
    << <<"X-Api-Key", api_key>>, <<"X-Params", json_dumps(BuildParams(s, e))>> >>

\* the response to a request with these headers: the records of the page
\* at the requested offset, and the total, which the server may report
\* differently once the first page is out
Serve(h) ==
    LET offset == Get(json_loads(Get(h, "X-Params")), "offset")
        page == offset \div page_size
    IN [data |-> IF offset % page_size = 0 /\ page \in DOMAIN srv_data
                 THEN srv_data[page] ELSE << >>,
        total |-> IF offset = 0 THEN srv_total ELSE srv_later]

\* what the session sent, as the server sees it
Sent(by, h) ==
    [by |-> by, key |-> Get(h, "X-Api-Key"), params |-> json_loads(Get(h, "X-Params")),
     afterFailure |-> \E i \in 1..Len(futures) : futures[i].state = "failed"]

\* a client built with an explicit key has been called
Init ==
    /\ api_key_arg = API_KEY
    /\ environ = None
    /\ api_key = API_KEY
    /\ dataset \in Datasets
    /\ start = 24
    /\ end \in {<< >>, <<48>>}
    /\ n_workers \in 0..MaxWorkers
    /\ verbose \in BOOLEAN
    /\ srv_total \in Totals
    /\ \E v \in 0..2 :
        /\ srv_data = Stream(dataset, v, ServerPages(srv_total))
        /\ srv_later = LaterTotal(v, srv_total)
    /\ pc = "fetch_first"
    /\ hdr = (0 :> BuildHeaders(start, end))
    /\ total_records = 0
    /\ total_pages = 0
    /\ raw_df = NoFrame
    /\ futures = << >>
    /\ page_dfs = << >>
    /\ completed = << >>
    /\ yielded = {}
    /\ progress = 0
    /\ requests = {}
    /\ result = NoFrame
    /\ error = None


\* ------------------------------------------------------------ EIA.__init__
\* (a bug) no check: the client is built whether or not there is a key
ConstructUnchecked ==
    /\ pc = "construct"
    /\ api_key' = IF api_key_arg = None THEN environ ELSE api_key_arg
    /\ pc' = "constructed"
    /\ error' = error
    /\ UNCHANGED <<api_key_arg, environ, dataset, start, end, n_workers, verbose,
                   srv_total, srv_data, srv_later, hdr, total_records, total_pages,
                   raw_df, futures, page_dfs, completed, yielded, progress, requests,
                   result>>

\* EIA(api_key): the key is the argument or, if that is None, the
\* environment's EIA_API_KEY; with neither the constructor raises ValueError
\* and no client object comes to be
Construct ==
    /\ pc = "construct"
    /\ api_key' = IF api_key_arg = None THEN environ ELSE api_key_arg
    /\ IF api_key' = None
       THEN pc' = "construct_raised" /\ error' = "ValueError"
       ELSE pc' = "constructed" /\ error' = error
    /\ UNCHANGED <<api_key_arg, environ, dataset, start, end, n_workers, verbose,
                   srv_total, srv_data, srv_later, hdr, total_records, total_pages,
                   raw_df, futures, page_dfs, completed, yielded, progress, requests,
                   result>>

\* client.get_dataset(...) up to the first fetch: params and headers are built
CallGetDataset ==
    /\ pc = "constructed"
    /\ hdr' = (0 :> BuildHeaders(start, end))
    /\ pc' = "fetch_first"
    /\ UNCHANGED <<args, total_records, total_pages, raw_df, futures, page_dfs,
                   completed, yielded, progress, requests, result, error>>

\* ------------------------------------------------------------ get_dataset
\* (a bug) floor instead of ceiling
PageCountFloor(total) == total \div page_size

\* (total_records + page_size - 1) // page_size
PageCount(total) == (total + page_size - 1) \div page_size

\* raw_df, total_records = self._fetch_page(url, headers), with a response
FetchFirstPage ==
    /\ pc = "fetch_first"
    /\ requests' = requests \cup {Sent(0, hdr[0])}
    /\ \E response \in {Serve(hdr[0])} :
        /\ raw_df' = DataFrame(response.data)
        /\ total_records' = response.total
        /\ total_pages' = PageCount(response.total)
        /\ pc' = IF PageCount(response.total) > 1 THEN "executor" ELSE "transform"
    /\ UNCHANGED <<args, hdr, futures, page_dfs, completed, yielded, progress,
                   result, error>>

\* (a bug) the exception of the first fetch is caught and the call goes on
FetchFirstPageSwallowed ==
    /\ pc = "fetch_first"
    /\ requests' = requests \cup {Sent(0, hdr[0])}
    /\ total_pages' = 2
    /\ pc' = "executor"
    /\ UNCHANGED <<args, hdr, total_records, raw_df, futures, page_dfs,
                   completed, yielded, progress, result, error>>

\* the same call, with session.get or the decoding of the body raising
FetchFirstPageFails ==
    /\ pc = "fetch_first"
    /\ requests' = requests \cup {Sent(0, hdr[0])}
    /\ pc' = "raised"
    /\ error' = "FetchError"
    /\ UNCHANGED <<args, hdr, total_records, total_pages, raw_df, futures, page_dfs,
                   completed, yielded, progress, result>>


\* (a bug) one thread more than asked for
max_workers_plus_one == n_workers + 1

\* ThreadPoolExecutor(max_workers=n_workers)
max_workers == n_workers

\* the constructor raises ValueError unless max_workers > 0
CreateExecutor ==
    /\ pc = "executor"
    /\ IF max_workers <= 0
       THEN pc' = "raised" /\ error' = "ValueError"
       ELSE pc' = "submit" /\ error' = error
    /\ UNCHANGED <<args, hdr, total_records, total_pages, raw_df, futures, page_dfs,
                   completed, yielded, progress, requests, result>>


\* (a bug) range(0, total_pages): page 0 is fetched again by the pool
pages_from_zero == [i \in 1..total_pages |-> i - 1]

\* pages = range(1, total_pages)
pages == [i \in 1..(total_pages - 1) |-> i]

\* (a bug) headers passed without .copy(): every work item holds the
\* caller's dict
SharedHeaders(page) == 0

\* headers.copy(): the object the copy for this page is
CopyOf(page) == page

\* futures = [executor.submit(fetch_page_wrapper, url, headers.copy(), page,
\* page_size) for page in pages], one submit at a time
Submit ==
    /\ pc = "submit"
    /\ Len(futures) < Len(pages)
    /\ LET page == pages[Len(futures) + 1] IN
        /\ hdr' = (CopyOf(page) :> hdr[0]) @@ hdr
        /\ futures' = Append(futures, [page |-> page, headers |-> CopyOf(page),
                                         state |-> "pending", df |-> NoFrame])
    /\ UNCHANGED <<args, pc, total_records, total_pages, raw_df, page_dfs, completed,
                   yielded, progress, requests, result, error>>

\* the list is built: on to the progress bar, or to the results
Submitted ==
    /\ pc = "submit"
    /\ Len(futures) = Len(pages)
    /\ pc' = IF verbose THEN "progress" ELSE "gather"
    /\ progress' = IF verbose THEN 1 ELSE progress
    /\ UNCHANGED <<args, hdr, total_records, total_pages, raw_df, futures, page_dfs,
                   completed, yielded, requests, result, error>>

\* ---- the pool's threads
Running == {i \in 1..Len(futures) : futures[i].state \in {"running", "sending"}}

\* (a bug) the offset counts pages, not records
WrapperParamsPageIndex(h, page) ==
    SetItem(json_loads(Get(h, "X-Params")), "offset", page)

\* params = json.loads(headers["X-Params"]); params["offset"] = page * page_size
WrapperParams(h, page) ==
    SetItem(json_loads(Get(h, "X-Params")), "offset", page * page_size)

\* a thread takes the oldest queued work item and runs fetch_page_wrapper
\* up to headers["X-Params"] = json.dumps(params)
WorkerStart(i) ==
    /\ futures[i].state = "pending"
    /\ \A j \in 1..(i - 1) : futures[j].state # "pending"
    /\ Cardinality(Running) < max_workers
    /\ LET h == futures[i].headers
           params == WrapperParams(hdr[h], futures[i].page)
       IN hdr' = [hdr EXCEPT ![h] = SetItem(@, "X-Params", json_dumps(params))]
    /\ futures' = [futures EXCEPT ![i].state = "running"]
    /\ UNCHANGED <<args, pc, total_records, total_pages, raw_df, page_dfs, completed,
                   yielded, progress, requests, result, error>>

\* self.session.get(url, headers=headers) goes out; what the server will
\* answer is settled by the headers as they are now
WorkerSend(i) ==
    /\ futures[i].state = "running"
    /\ requests' = requests \cup {Sent(i, hdr[futures[i].headers])}
    /\ \E response \in {Serve(hdr[futures[i].headers])} :
        futures' = [futures EXCEPT ![i].state = "sending",
                                   ![i].df = DataFrame(response.data)]
    /\ UNCHANGED <<args, pc, hdr, total_records, total_pages, raw_df, page_dfs,
                   completed, yielded, progress, result, error>>

\* (a bug) the total of a later page replaces the one of the first page
TotalFromLaterPage(kept, reported) == reported

\* "page_df, _ = self._fetch_page(url, headers)": the total a later page
\* reports is bound to _ and dropped
TotalAfterPage(kept, reported) == kept

\* the response arrives: page_df, _ = self._fetch_page(...); return page_df
WorkerReturns(i) ==
    /\ futures[i].state = "sending"
    /\ futures' = [futures EXCEPT ![i].state = "done"]
    /\ completed' = Append(completed, i)
    /\ total_records' = TotalAfterPage(total_records, Serve(hdr[futures[i].headers]).total)
    /\ UNCHANGED <<args, pc, hdr, total_pages, raw_df, page_dfs,
                   yielded, progress, requests, result, error>>

\* the request or the decoding raises: the future holds the exception
WorkerRaises(i) ==
    /\ futures[i].state = "sending"
    /\ futures' = [futures EXCEPT ![i].state = "failed", ![i].df = NoFrame]
    /\ completed' = Append(completed, i)
    /\ UNCHANGED <<args, pc, hdr, total_records, total_pages, raw_df, page_dfs,
                   yielded, progress, requests, result, error>>

Finished(i) == i \in 1..Len(futures) /\ futures[i].state \in {"done", "failed"}

\* ---- back in the calling thread
\* (a bug) as_completed with a timeout: the loop raises when the next
\* future has not finished yet
ProgressUpdateTimesOut ==
    /\ pc = "progress"
    /\ yielded # 1..Len(futures)
    /\ IF \E i \in 1..Len(futures) : Finished(i) /\ i \notin yielded
       THEN /\ \E i \in 1..Len(futures) :
                /\ Finished(i)
                /\ i \notin yielded
                /\ yielded' = yielded \cup {i}
            /\ progress' = progress + 1
            /\ pc' = pc
            /\ error' = error
       ELSE /\ pc' = "unwind"
            /\ error' = "TimeoutError"
            /\ UNCHANGED <<yielded, progress>>
    /\ UNCHANGED <<args, hdr, total_records, total_pages, raw_df, futures, page_dfs,
                   completed, requests, result>>

\* for future, page in zip(as_completed(futures), pages): progress_bar.update(1)
ProgressUpdate ==
    /\ pc = "progress"
    /\ \E i \in 1..Len(futures) :
        /\ Finished(i)
        /\ i \notin yielded
        /\ yielded' = yielded \cup {i}
    /\ progress' = progress + 1
    /\ UNCHANGED <<args, pc, hdr, total_records, total_pages, raw_df, futures, page_dfs,
                   completed, requests, result, error>>

\* (a bug) the loop waits for as many completions as the bar has pages,
\* the first page included, which is no future
ProgressDoneAfterTotalPages ==
    /\ pc = "progress"
    /\ Cardinality(yielded) = total_pages
    /\ pc' = "gather"
    /\ UNCHANGED <<args, hdr, total_records, total_pages, raw_df, futures, page_dfs,
                   completed, yielded, progress, requests, result, error>>

\* as_completed is exhausted
ProgressDone ==
    /\ pc = "progress"
    /\ yielded = 1..Len(futures)
    /\ pc' = "gather"
    /\ UNCHANGED <<args, hdr, total_records, total_pages, raw_df, futures, page_dfs,
                   completed, yielded, progress, requests, result, error>>


\* (a bug) results taken in completion order (for future in as_completed)
FutureAtCompletion(k) ==
    IF k <= Len(completed) THEN completed[k] ELSE Len(futures) + 1

\* the future whose result the k-th turn of
\* [future.result() for future in futures] waits for
FutureAt(k) == k


\* (a bug) the exception of a failed fetch is swallowed
ResultNeverRaises(i) == FALSE

\* future.result() re-raises the exception of a failed fetch
ResultRaises(i) == futures[i].state = "failed"

\* one turn of the list comprehension: future.result() blocks until the
\* future has finished
GatherResult ==
    /\ pc = "gather"
    /\ Len(page_dfs) < Len(futures)
    /\ LET k == Len(page_dfs) + 1 IN
        /\ Finished(FutureAt(k))
        /\ IF ResultRaises(FutureAt(k))
           THEN /\ pc' = "unwind"
                /\ error' = "FetchError"
                /\ page_dfs' = page_dfs
           ELSE /\ pc' = IF k = Len(futures) THEN "exit" ELSE "gather"
                /\ error' = error
                /\ page_dfs' = Append(page_dfs, futures[FutureAt(k)].df)
    /\ UNCHANGED <<args, hdr, total_records, total_pages, raw_df, futures, completed,
                   yielded, progress, requests, result>>

\* (a bug) shutdown(wait=False): the with block is left at once
ExecutorExitNoWait ==
    /\ pc \in {"exit", "unwind"}
    /\ pc' = IF pc = "exit" THEN "concat" ELSE "raised"
    /\ UNCHANGED <<args, hdr, total_records, total_pages, raw_df, futures, page_dfs,
                   completed, yielded, progress, requests, result, error>>

\* leaving the with block, normally or with the exception: shutdown(wait=True)
\* returns when every submitted work item has run
ExecutorExit ==
    /\ pc \in {"exit", "unwind"}
    /\ \A i \in 1..Len(futures) : Finished(i)
    /\ pc' = IF pc = "exit" THEN "concat" ELSE "raised"
    /\ UNCHANGED <<args, hdr, total_records, total_pages, raw_df, futures, page_dfs,
                   completed, yielded, progress, requests, result, error>>

\* raw_df = pd.concat([raw_df, *page_dfs], ignore_index=True)
Concat ==
    /\ pc = "concat"
    /\ \E frames \in {<<raw_df>> \o page_dfs} : raw_df' = concat(frames)
    /\ pc' = "transform"
    /\ UNCHANGED <<args, hdr, total_records, total_pages, futures, page_dfs, completed,
                   yielded, progress, requests, result, error>>

\* df = raw_df.copy(); the handler, if one is registered; return df
Transform ==
    /\ pc = "transform"
    /\ \E out \in {ApplyHandler(dataset, raw_df)} :
        IF out.ok
        THEN pc' = "returned" /\ result' = out.df /\ error' = error
        ELSE pc' = "raised" /\ result' = result /\ error' = out.error
    /\ UNCHANGED <<args, hdr, total_records, total_pages, raw_df, futures, page_dfs,
                   completed, yielded, progress, requests>>

Next ==
    \/ FetchFirstPage
    \/ FetchFirstPageFails
    \/ CreateExecutor
    \/ Submit
    \/ Submitted
    \/ \E i \in 1..Len(futures) : WorkerStart(i)
    \/ \E i \in 1..Len(futures) : WorkerSend(i)
    \/ \E i \in 1..Len(futures) : WorkerReturns(i)
    \/ \E i \in 1..Len(futures) : WorkerRaises(i)
    \/ ProgressUpdate
    \/ ProgressDone
    \/ GatherResult
    \/ ExecutorExit
    \/ Concat
    \/ Transform

Spec == Init /\ [][Next]_vars

\* ------------------------------------------------------------ properties
\* the rows the server holds for pages 0 .. total_pages - 1, page after page
ExpectedRows ==
    Flatten([p \in 1..total_pages |-> DataFrame(srv_data[p - 1]).rows])

Offsets == {Get(r.params, "offset") : r \in requests}

Failed == {i \in 1..Len(futures) : futures[i].state = "failed"}

\* C1: for every number of pages, every n_workers >= 1 and every order in
\* which the fetches complete, the raw table is page 0's rows, then page
\* 1's, page 2's, ... with the order inside each page kept; so it is the
\* same table for one worker and for several.
C1_RawTableInPageOrder ==
    pc \in {"transform", "returned"} => raw_df.rows = ExpectedRows

C1_Witness ==
    /\ pc = "returned"
    /\ n_workers = 2
    /\ total_pages = 3
    /\ completed = <<2, 1>>

\* C2: a call in which a page fetch of the pool failed never goes on to
\* build or return a table: it raises the fetch's error and returns
\* nothing; the results gathered are those of fetches that succeeded.
C2_NoPartialTable ==
    /\ \A k \in 1..Len(page_dfs) : futures[k].state = "done"
    /\ Failed # {} =>
        /\ pc \notin {"exit", "concat", "transform", "returned"}
        /\ result = NoFrame
        /\ pc = "raised" => error = "FetchError"

C2_Witness ==
    /\ pc = "raised"
    /\ Len(futures) = 2
    /\ futures[1].state = "done"
    /\ futures[2].state = "failed"

\* C3: total_pages is the ceiling of total_records / page_size for the
\* total page 0 reports; when that total is at most page_size (also 0) the
\* page-0 request is the only request of the call and nothing is submitted
\* to a pool.
C3_PageCountIsCeiling ==
    raw_df # NoFrame =>
        /\ total_records = srv_total
        /\ total_pages * page_size >= total_records
        /\ total_pages * page_size < total_records + page_size
        /\ total_records <= page_size =>
            /\ futures = << >>
            /\ Cardinality(requests) = 1
            /\ pc \in {"transform", "returned", "raised"}

C3_Witness ==
    /\ pc = "returned"
    /\ total_records = page_size
    /\ total_pages = 1
    /\ Cardinality(requests) = 1

\* C4: a call with total_pages > 1 (and a pool, n_workers >= 1) that ends
\* with no fetch failed has sent exactly one request per offset 0,
\* page_size, ..., (total_pages - 1) * page_size; and in every execution no
\* offset is requested twice.
C4_OneRequestPerOffset ==
    /\ \A r1, r2 \in requests :
        Get(r1.params, "offset") = Get(r2.params, "offset") => r1 = r2
    /\ (pc \in {"returned", "raised"} /\ total_pages > 1 /\ n_workers >= 1
            /\ Failed = {}) =>
        /\ Offsets = {p * page_size : p \in 0..(total_pages - 1)}
        /\ Cardinality(requests) = total_pages

C4_Witness ==
    /\ pc = "returned"
    /\ total_pages = 3
    /\ Offsets = {0, 5000, 10000}

\* C5: every work item has its own copy of the headers: the request sent
\* for page p >= 1 carries offset p * page_size in every interleaving, the
\* dict of one work item is changed by that work item alone, and the
\* caller's headers stay as built (offset 0).
C5_OwnCopyOfHeaders ==
    /\ hdr[0] = BuildHeaders(start, end)
    /\ \A r \in requests :
        Get(r.params, "offset") = IF r.by = 0 THEN 0 ELSE futures[r.by].page * page_size
    /\ \A i \in 1..Len(futures) :
        Get(json_loads(Get(hdr[futures[i].headers], "X-Params")), "offset") =
            IF futures[i].state = "pending" THEN 0 ELSE futures[i].page * page_size

C5_Witness ==
    /\ Len(futures) = 2
    /\ pc = "gather"
    /\ futures[1].state = "running"
    /\ futures[2].state = "running"

\* C6: nothing is submitted to the pool before the page-0 fetch has
\* returned; a call whose page-0 fetch fails submits nothing and raises.
C6_FirstPageBeforePool ==
    /\ pc = "fetch_first" => futures = << >> /\ requests = {}
    /\ raw_df = NoFrame => pc \in {"fetch_first", "raised"}
    /\ (pc = "raised" /\ raw_df = NoFrame) =>
        /\ futures = << >>
        /\ \A r \in requests : r.by = 0
        /\ error = "FetchError"
        /\ result = NoFrame
    /\ (futures # << >> \/ \E r \in requests : r.by # 0) =>
        /\ raw_df # NoFrame
        /\ total_records = srv_total
        /\ \E r \in requests : r.by = 0

C6_Witness ==
    /\ pc = "raised"
    /\ raw_df = NoFrame
    /\ srv_total > page_size

\* C7 as the spec has it: when the call raises because a page fetch failed,
\* no fetch was started after the failure (only fetches in flight at that
\* moment were waited for).
C7_NoFetchStartsAfterFailure ==
    pc = "raised" => \A r \in requests : ~r.afterFailure

\* C7, amended: when a page fetch of the pool fails, the call raises only
\* after every submitted fetch has run to completion, those not yet started
\* at the failure included: they are still sent and waited for; no result
\* is returned.
C7_RaisesAfterAllFetchesRan ==
    (pc = "raised" /\ futures # << >>) =>
        /\ \A i \in 1..Len(futures) : Finished(i)
        /\ {r.by : r \in requests} = 0..Len(futures)
        /\ Len(futures) = Len(pages)
        /\ result = NoFrame

C7_Witness ==
    /\ pc = "raised"
    /\ error = "FetchError"
    /\ \E r \in requests : r.afterFailure

\* C8: at every moment at most n_workers page fetches are in flight in the
\* pool; with n_workers = 1 the pages are fetched one at a time.
C8_AtMostNWorkersInFlight ==
    Cardinality(Running) <= n_workers

C8_Witness ==
    /\ n_workers >= 1
    /\ Cardinality(Running) = n_workers
    /\ \E i \in 1..Len(futures) : futures[i].state = "pending"

\* what the call must come to, from the records the server holds
ExpectedOutcome ==
    LET raw == [columns |-> OrderedUnion(<< >>,
                    Flatten([p \in 1..total_pages |-> DataFrame(srv_data[p - 1]).columns])),
                rows |-> ExpectedRows]
    IN IF dataset = INTERCHANGE THEN _handle_rto_interchange(raw)
       ELSE IF dataset = REGION THEN _handle_region_data(raw)
       ELSE Ok(raw)

\* C9: for a dataset with no handler the call returns the raw concatenated
\* table as it is (columns, rows, order) and the transform step never
\* raises; for a registered dataset it returns (or raises) what the
\* registered handler makes of the complete concatenated table.
C9_HandlerOrIdentity ==
    /\ pc = "returned" => ExpectedOutcome.ok /\ result = ExpectedOutcome.df
    /\ (pc = "raised" /\ error \in {"KeyError", "TypeError"}) =>
        ~ExpectedOutcome.ok /\ error = ExpectedOutcome.error
    /\ (pc = "returned" /\ dataset \notin {INTERCHANGE, REGION}) => result = raw_df

C9_Witness ==
    /\ pc = "returned"
    /\ dataset = FUELTYPE
    /\ total_pages = 3
    /\ Len(result.rows) = 4

\* ------------------------------------------------------------ the handlers alone
\* longest raw table handed to a handler
MaxRows == 3

\* interchange records: two hours either side of midnight, codes of which
\* one is a prefix of another, and two records alike in both sort keys
InterchangeRecords ==
    { InterchangeRecord(<<1, 23>>, B, A, 5),
      InterchangeRecord(<<2, 0>>, A, B, 7),
      InterchangeRecord(<<2, 0>>, AB, B, 3),
      InterchangeRecord(<<2, 0>>, A, AB, 4),
      InterchangeRecord(<<1, 23>>, AB, A, 6) }

SeqsUpTo(S, n) == UNION {[1..k -> S] : k \in 0..n}

\* region records of one hour and respondent with all four type codes
RegionFull ==
    << RegionRecord(<<2, 0>>, B, "D", 4), RegionRecord(<<2, 0>>, B, "NG", 6),
       RegionRecord(<<2, 0>>, B, "DF", 5), RegionRecord(<<2, 0>>, B, "TI", 2) >>

\* further region records: other respondents and hours, a second and a
\* third Load value for the hour and respondent of RegionFull, and a type
\* code that is none of the four
RegionRecords ==
    { RegionRecord(<<2, 0>>, A, "D", 8),
      RegionRecord(<<1, 23>>, B, "NG", 3),
      RegionRecord(<<2, 0>>, B, "D", 6),
      RegionRecord(<<2, 0>>, B, "D", 7),
      RegionRecord(<<2, 0>>, A, "XX", 9),
      RegionRecord(<<2, 0>>, A, "TI", 2) }

\* the raw tables handed to the handler of a dataset
TransformInputs(ds) ==
    IF ds = INTERCHANGE THEN SeqsUpTo(InterchangeRecords, MaxRows)
    ELSE {base \o more : base \in {<< >>, RegionFull},
                         more \in SeqsUpTo(RegionRecords, MaxRows)}

\* the fields of the records of a dataset
SourceColumns(ds) ==
    IF ds = INTERCHANGE
    THEN {"period", "fromba", "fromba-name", "toba", "toba-name", "value"}
    ELSE {"period", "respondent", "respondent-name", "type", "value"}

\* the records as a server sends them that leaves the field k out
WithoutField(recs, k) ==
    [i \in 1..Len(recs) |-> SelectSeq(recs[i], LAMBDA m : m[1] # k)]

\* the call stands before its transform step with a one-page raw table,
\* whose records have every field or all lack the same one
InitTransform ==
    /\ api_key_arg = API_KEY
    /\ environ = None
    /\ api_key = API_KEY
    /\ dataset \in DATASET_HANDLERS
    /\ start = 24
    /\ end = << >>
    /\ n_workers = 1
    /\ verbose = FALSE
    /\ \E recs \in TransformInputs(dataset) :
        \E k \in {"(none)"} \cup SourceColumns(dataset) :
            /\ srv_total = Len(recs)
            /\ srv_data = IF recs = << >> THEN << >> ELSE (0 :> WithoutField(recs, k))
            /\ raw_df = DataFrame(WithoutField(recs, k))
    /\ srv_later = srv_total
    /\ total_records = srv_total
    /\ total_pages = PageCount(srv_total)
    /\ pc = "transform"
    /\ hdr = (0 :> BuildHeaders(start, end))
    /\ futures = << >>
    /\ page_dfs = << >>
    /\ completed = << >>
    /\ yielded = {}
    /\ progress = 0
    /\ requests = {Sent(0, hdr[0])}
    /\ result = NoFrame
    /\ error = None

NextTransform == Transform

SpecTransform == InitTransform /\ [][NextTransform]_vars

\* a <= b as Python compares str: a is a prefix of b, or a has the smaller
\* letter where they first differ
StrLeq(a, b) ==
    \/ Len(a) <= Len(b) /\ \A i \in 1..Len(a) : a[i] = b[i]
    \/ \E k \in 1..Len(a) :
        /\ k <= Len(b)
        /\ \A i \in 1..(k - 1) : a[i] = b[i]
        /\ a[k] < b[k]

\* the hour a period label names, counted from day 0, hour 0
HourOf(period) == 24 * period[1] + period[2]

\* output row out is input record rec: its period as Interval End, and its
\* codes and value
SameRow(out, rec) ==
    /\ out["Interval End"] = HourOf(Get(rec, "period"))
    /\ out["From BA"] = Get(rec, "fromba")
    /\ out["To BA"] = Get(rec, "toba")
    /\ out["MW"] = Get(rec, "value")

InputRecords == IF srv_total = 0 THEN << >> ELSE srv_data[0]

\* C10: the rows the interchange handler returns are sorted ascending by
\* (Interval Start, From BA): of two adjacent rows the first has the
\* smaller Interval Start, or the same and a From BA that is less or equal
\* as strings; and the rows are a permutation of the input rows.
C10_InterchangeSorted ==
    (pc = "returned" /\ dataset = INTERCHANGE) =>
        /\ \A i \in 1..(Len(result.rows) - 1) :
            \/ result.rows[i]["Interval Start"] < result.rows[i + 1]["Interval Start"]
            \/ /\ result.rows[i]["Interval Start"] = result.rows[i + 1]["Interval Start"]
               /\ StrLeq(result.rows[i]["From BA"], result.rows[i + 1]["From BA"])
        /\ Len(result.rows) = Len(InputRecords)
        /\ \E f \in [1..Len(InputRecords) -> 1..Len(InputRecords)] :
            /\ \A i, j \in 1..Len(InputRecords) : f[i] = f[j] => i = j
            /\ \A i \in 1..Len(InputRecords) : SameRow(result.rows[i], InputRecords[f[i]])

C10_Witness ==
    /\ pc = "returned"
    /\ InputRecords = << InterchangeRecord(<<2, 0>>, AB, B, 3),
                         InterchangeRecord(<<2, 0>>, A, B, 7),
                         InterchangeRecord(<<1, 23>>, B, A, 5) >>
    /\ result.rows[1]["From BA"] = B
    /\ result.rows[2]["From BA"] = A
    /\ result.rows[3]["From BA"] = AB

\* the permutations of 1..n
Orders(n) == {f \in [1..n -> 1..n] : \A i, j \in 1..n : f[i] = f[j] => i = j}

\* C11: the output order of the interchange handler does not depend on the
\* order of the source rows: the same records in any other order (records
\* alike in Interval Start and From BA but not in To BA included) give the
\* same sequence of output rows.
C11_OrderIndependent ==
    (pc = "returned" /\ dataset = INTERCHANGE) =>
        \A f \in Orders(Len(InputRecords)) :
            _handle_rto_interchange(
                DataFrame([i \in 1..Len(InputRecords) |-> InputRecords[f[i]]])).df.rows
            = result.rows

\* ---- claims about the region-data transform
\* every record of the raw table has every field of its dataset
AllFieldsPresent ==
    \A i \in 1..Len(InputRecords) : Keys(InputRecords[i]) = SourceColumns(dataset)

\* the hour, respondent and type code of a region record
KeyAndCode(rec) == <<Get(rec, "period"), Get(rec, "respondent"), Get(rec, "type")>>

\* no two region records have the same hour, respondent and type code
OneRowPerKeyAndCode ==
    \A i, j \in 1..Len(InputRecords) :
        KeyAndCode(InputRecords[i]) = KeyAndCode(InputRecords[j]) => i = j

\* the type codes that occur in the raw table
CodesPresent == {Get(InputRecords[i], "type") : i \in 1..Len(InputRecords)}

\* C12: for every non-empty region table with all its fields and one row
\* per hour, respondent and code, the region transform returns, its table
\* has the four value columns Load, Net Generation, Load Forecast and Total
\* Interchange, and the column of a type code no row has is null in every row.
C12_AllValueColumnsExist ==
    (dataset = REGION /\ pc \in {"returned", "raised"} /\ InputRecords # << >>
        /\ AllFieldsPresent /\ OneRowPerKeyAndCode) =>
        /\ pc = "returned"
        /\ Range(FixColumns) \subseteq Range(result.columns)
        /\ \A m \in Range(TypeLabels) :
            m[1] \notin CodesPresent =>
                \A i \in 1..Len(result.rows) : result.rows[i][m[2]] = NA

\* the output key of a region record
PivotKeyOf(rec) ==
    [c \in Range(PivotIndex) |->
        CASE c = "Interval Start" -> HourOf(Get(rec, "period")) - 1
          [] c = "Interval End" -> HourOf(Get(rec, "period"))
          [] c = "Respondent" -> Get(rec, "respondent")
          [] c = "Respondent Name" -> Get(rec, "respondent-name")]

\* the output key of an output row
PivotKeyIn(row) == [c \in Range(PivotIndex) |-> row[c]]

\* the distinct output keys of the raw table
InputKeys == {PivotKeyOf(InputRecords[i]) : i \in 1..Len(InputRecords)}

\* the region table has one output row per distinct key of the raw table,
\* and in it each label's column holds the value of the input row of that
\* key and code, or null when there is none
PivotedOncePerKey(out) ==
    /\ {PivotKeyIn(out.rows[i]) : i \in 1..Len(out.rows)} = InputKeys
    /\ Len(out.rows) = Cardinality(InputKeys)
    /\ \A i \in 1..Len(out.rows) : \A m \in Range(TypeLabels) :
        LET src == {j \in 1..Len(InputRecords) :
                        /\ PivotKeyOf(InputRecords[j]) = PivotKeyIn(out.rows[i])
                        /\ Get(InputRecords[j], "type") = m[1]}
        IN /\ m[2] \in Range(out.columns)
           /\ IF src = {} THEN out.rows[i][m[2]] = NA
              ELSE \E j \in src : out.rows[i][m[2]] = Int64(Get(InputRecords[j], "value"))

\* C13: for every non-empty region table with all its fields, type codes
\* among D, TI, NG, DF and one row per hour, respondent and code, the region
\* transform returns one row per distinct (Interval Start, Interval End,
\* Respondent, Respondent Name) of the input, and the column of each label
\* holds the value of the input row of that key and code, null if none.
C13_OneRowPerKey ==
    (dataset = REGION /\ pc \in {"returned", "raised"} /\ InputRecords # << >>
        /\ AllFieldsPresent /\ OneRowPerKeyAndCode
        /\ CodesPresent \subseteq Keys(TypeLabels)) =>
        pc = "returned" /\ PivotedOncePerKey(result)

\* C14: a table returned by a registered transform has Interval Start and
\* Interval End as its first two columns, and in every row Interval End is
\* the period label of a source row and Interval Start is one hour earlier.
C14_IntervalColumnsFirst ==
    (pc = "returned" /\ dataset \in DATASET_HANDLERS) =>
        /\ Len(result.columns) >= 2
        /\ result.columns[1] = "Interval Start"
        /\ result.columns[2] = "Interval End"
        /\ \A i \in 1..Len(result.rows) :
            /\ result.rows[i]["Interval End"] = result.rows[i]["Interval Start"] + 1
            /\ \E j \in 1..Len(InputRecords) :
                result.rows[i]["Interval End"] = HourOf(Get(InputRecords[j], "period"))
        /\ \A j \in 1..Len(InputRecords) :
            (dataset = INTERCHANGE \/ Get(InputRecords[j], "type") \in Keys(TypeLabels)) =>
                \E i \in 1..Len(result.rows) :
                    result.rows[i]["Interval End"] = HourOf(Get(InputRecords[j], "period"))

\* a registered transform has returned a table whose rows span two hours
C14_Witness ==
    /\ pc = "returned"
    /\ Len(result.rows) >= 2
    /\ result.rows[1]["Interval End"] # result.rows[Len(result.rows)]["Interval End"]

\* ---- claims about the requests of a call
\* C15: the offset of every request sent is a non-negative multiple of the
\* page size, and the requests of a call differ in nothing but the offset:
\* they carry the same API key and the same start, end, frequency and
\* length, which is 5000.
C15_OnlyOffsetVaries ==
    /\ \A r \in requests :
        /\ Get(r.params, "offset") >= 0
        /\ Get(r.params, "offset") % page_size = 0
        /\ Get(r.params, "length") = 5000
    /\ Cardinality({<<r.key, SelectSeq(r.params, LAMBDA m : m[1] # "offset")>> :
                        r \in requests}) <= 1

\* the first page and two later pages have been requested
C15_Witness ==
    /\ Cardinality(Offsets) = 3
    /\ \E r \in requests : r.by = 2

\* ---- claims about progress reporting
\* the outcome of a finished call as the page responses alone settle it:
\* which fetches failed and what the server holds, whatever verbose is
OutcomeFromResponses ==
    IF raw_df = NoFrame THEN Raise("FetchError")
    ELSE IF total_pages > 1 /\ n_workers <= 0 THEN Raise("ValueError")
    ELSE IF Failed # {} THEN Raise("FetchError")
    ELSE ExpectedOutcome

\* C16: progress reporting never raises and never changes the outcome: a
\* finished call has returned the table, or raised the error, that the
\* page responses settle (first-page failure, failed page fetches, the
\* records served), the same with verbose on as with verbose off and for
\* every completion order; the bar is advanced once per page at most and
\* only in verbose mode.
C16_VerboseSameOutcome ==
    /\ pc = "returned" =>
        OutcomeFromResponses.ok /\ result = OutcomeFromResponses.df
    /\ pc = "raised" =>
        ~OutcomeFromResponses.ok /\ error = OutcomeFromResponses.error
                                 /\ result = NoFrame
    /\ progress <= total_pages
    /\ ~verbose => progress = 0 /\ yielded = {}

\* a verbose call has raised after a page fetch failed, with the pages
\* completing out of page order and the bar advanced for every page
C16_Witness ==
    /\ pc = "raised"
    /\ verbose
    /\ Len(futures) = 2
    /\ completed = <<2, 1>>
    /\ futures[2].state = "failed"
    /\ progress = total_pages

\* ---- claims about missing columns
\* C17: when the raw table handed to a registered transform lacks a column
\* the transform expects, the call raises the missing-column error
\* (KeyError) to its caller and returns no table.
C17_MissingColumnRaises ==
    (dataset \in DATASET_HANDLERS /\ pc \in {"returned", "raised"}
        /\ ~(SourceColumns(dataset) \subseteq Range(raw_df.columns))) =>
        pc = "raised" /\ error = "KeyError" /\ result = NoFrame

\* an interchange table whose records lack the field renamed to From BA
\* has been handed to the transform, which raised
C17_Witness ==
    /\ dataset = INTERCHANGE
    /\ pc = "raised"
    /\ Len(raw_df.rows) >= 2
    /\ Range(raw_df.columns) = SourceColumns(INTERCHANGE) \ {"fromba"}

\* ------------------------------------------------------------ the client
\* no client yet: the key argument and the environment may each be absent
InitClient ==
    /\ api_key_arg \in {None, API_KEY}
    /\ environ \in {None, ENV_KEY}
    /\ api_key = None
    /\ dataset = FUELTYPE
    /\ start = 24
    /\ end = << >>
    /\ n_workers \in 1..MaxWorkers
    /\ verbose \in BOOLEAN
    /\ srv_total \in {1, page_size + 1}
    /\ srv_data = Stream(dataset, 0, ServerPages(srv_total))
    /\ srv_later = srv_total
    /\ pc = "construct"
    /\ hdr = << >>
    /\ total_records = 0
    /\ total_pages = 0
    /\ raw_df = NoFrame
    /\ futures = << >>
    /\ page_dfs = << >>
    /\ completed = << >>
    /\ yielded = {}
    /\ progress = 0
    /\ requests = {}
    /\ result = NoFrame
    /\ error = None

NextClient ==
    \/ Construct
    \/ CallGetDataset
    \/ Next

SpecClient == InitClient /\ [][NextClient]_vars

\* C18: a missing credential is reported when the client is constructed
\* and never by a call: the constructor raises exactly when there is
\* neither an explicit key nor an environment key, a client that exists
\* has a key (the explicit one, else the environment's), every request
\* carries that key, and get_dataset does not raise the credential error.
C18_NoClientWithoutKey ==
    /\ pc = "construct_raised" =>
        api_key_arg = None /\ environ = None /\ error = "ValueError"
    /\ pc \notin {"construct", "construct_raised"} =>
        /\ api_key # None
        /\ api_key = IF api_key_arg # None THEN api_key_arg ELSE environ
    /\ (api_key_arg = None /\ environ = None) =>
        pc \in {"construct", "construct_raised"} /\ requests = {}
    /\ \A r \in requests : r.key = api_key /\ r.key # None
    /\ (pc = "raised" /\ n_workers >= 1) => error # "ValueError"

\* the constructor has raised for want of a key
C18_Witness ==
    pc = "construct_raised" /\ api_key_arg = None /\ environ = None

\* ---- claims about the total
\* C19: the total is read from the response to the first request only:
\* once that response is in, the total and the page count of the call are
\* those of the first page whatever total the later pages report, no more
\* than that many pages are fetched, and every offset requested lies
\* within them.
C19_TotalFromFirstPageOnly ==
    raw_df # NoFrame =>
        /\ total_records = srv_total
        /\ total_pages = PageCount(srv_total)
        /\ Len(futures) <= IF PageCount(srv_total) > 1 THEN PageCount(srv_total) - 1 ELSE 0
        /\ pc \in {"progress", "gather", "exit", "unwind", "concat"} =>
            Len(futures) = PageCount(srv_total) - 1
        /\ Offsets \subseteq {p * page_size : p \in 0..(PageCount(srv_total) - 1)} \cup {0}

\* the call has returned after two later pages came back reporting a
\* larger total than the first page did
C19_Witness ==
    /\ pc = "returned"
    /\ srv_later # srv_total
    /\ Len(futures) = 2
    /\ \A i \in 1..2 : futures[i].state = "done"
    /\ Serve(hdr[futures[1].headers]).total # total_records

\* ---- claims about the end of the call
\* C20: when the call has returned or raised, no page fetch of it is
\* queued or in flight: every fetch handed to the pool has been started,
\* has sent its request and has finished, whether or not an earlier one
\* failed.
C20_NothingInFlightAtEnd ==
    pc \in {"returned", "raised"} =>
        /\ Running = {}
        /\ \A i \in 1..Len(futures) :
            /\ futures[i].state # "pending"
            /\ Finished(i)
            /\ i \in Range(completed)
            /\ \E r \in requests : r.by = i

\* the call has raised; the first page fetch failed and the second one
\* finished after it
C20_Witness ==
    /\ pc = "raised"
    /\ Len(futures) = 2
    /\ completed = <<1, 2>>
    /\ futures[1].state = "failed"
    /\ futures[2].state = "done"
    /\ \E r \in requests : r.by = 2 /\ r.afterFailure

\* ---- claims about an empty dataset
\* C21: when the first page reports a total of 0 and carries no records,
\* the call sends exactly one request and returns a table with no rows
\* without raising, for every dataset, registered or not.
C21_EmptyDatasetReturnsEmptyTable ==
    (srv_total = 0 /\ raw_df # NoFrame /\ pc \in {"returned", "raised"}) =>
        /\ Cardinality(requests) = 1
        /\ pc = "returned"
        /\ Len(result.rows) = 0

\* ------------------------------------------------------------ termination
\* the steps of the calling thread
CallingThread ==
    \/ FetchFirstPage
    \/ FetchFirstPageFails
    \/ CreateExecutor
    \/ Submit
    \/ Submitted
    \/ ProgressUpdate
    \/ ProgressDone
    \/ GatherResult
    \/ ExecutorExit
    \/ Concat
    \/ Transform

\* the steps of the pool's threads up to the request going out
PoolThreads ==
    \E i \in 1..Len(futures) : WorkerStart(i) \/ WorkerSend(i)

\* a page fetch that is out completes, with a response or a failure
FetchCompletes ==
    \E i \in 1..Len(futures) : WorkerReturns(i) \/ WorkerRaises(i)

\* one total for every page count from 0 to MaxPages
LiveTotals == {0, 1} \cup {k * page_size + 1 : k \in 1..(MaxPages - 1)}

\* the calls of an open-ended query for a dataset with no handler to the
\* server that grows: the transform is one step of the calling thread
\* whatever the dataset is
InitLive ==
    /\ Init
    /\ dataset = FUELTYPE
    /\ end = << >>
    /\ srv_total \in LiveTotals
    /\ srv_later = LaterTotal(2, srv_total)

\* the calling thread and the pool's threads are scheduled, and every page
\* fetch that is out eventually completes
SpecLive ==
    /\ InitLive
    /\ [][Next]_vars
    /\ WF_vars(CallingThread)
    /\ WF_vars(PoolThreads)
    /\ WF_vars(FetchCompletes)

\* C22: with n_workers >= 1 and every page fetch eventually completing,
\* every call eventually returns a table or raises, for every page count,
\* every completion order, verbose or not.
C22_CallTerminates ==
    (n_workers >= 1) => <>(pc \in {"returned", "raised"})

\* a verbose call with two workers has returned after its two page
\* fetches completed out of page order
C22_Witness ==
    /\ pc = "returned"
    /\ verbose
    /\ n_workers = 2
    /\ Len(futures) = 2
    /\ completed = <<2, 1>>

\* ---- claims about unknown type codes
\* the records of the raw table whose type code is one of D, TI, NG, DF
KnownRecords ==
    SelectSeq(InputRecords, LAMBDA rec : Get(rec, "type") \in Keys(TypeLabels))

\* C23: region rows whose type code is none of D, TI, NG, DF change
\* nothing: the transform returns the table, or raises the error, that it
\* would for the raw table without those rows, so such a row is no cause of
\* failure, adds no value to any column and no column of its own.
C23_UnknownCodeDropped ==
    (dataset = REGION /\ pc \in {"returned", "raised"} /\ AllFieldsPresent
        /\ ~(CodesPresent \subseteq Keys(TypeLabels))) =>
        \E without \in {_handle_region_data(DataFrame(KnownRecords))} :
            /\ (pc = "returned") = without.ok
            /\ pc = "returned" =>
                /\ result = without.df
                /\ Range(result.columns) \subseteq Range(PivotIndex) \cup Range(LabelOrder)
            /\ pc = "raised" => error = without.error

\* the transform has returned one row for a table with the four codes of
\* one respondent and a row of unknown code of another respondent
C23_Witness ==
    /\ dataset = REGION
    /\ pc = "returned"
    /\ AllFieldsPresent
    /\ Len(InputRecords) = 5
    /\ Get(InputRecords[5], "type") = "XX"
    /\ Len(result.rows) = 1

====
